---- MODULE Spec2Model ----
(***************************************************************************)
(* A model of the query orchestration pipeline of routed-rag:              *)
(*   src/backend/app.py        the /chat endpoint                          *)
(*   src/backend/main.py       process_chat_request                        *)
(*   src/backend/ragpipeline.py RagPipeline (retrieve, rerank, context,    *)
(*                             answerability, generation, chat log)        *)
(*   src/backend/utils.py      clean_source_text, split_multi_citations    *)
(*   src/backend/weather.py    WeatherClient._extract_city                 *)
(*                                                                         *)
(* A text is a sequence of one-character strings.  The fixed literals the  *)
(* code matches or emits as a whole (the page footer's head and tail, the  *)
(* paragraph placeholder, the citation-map marker, the user-facing         *)
(* messages) are single elements of such a sequence.                       *)
(***************************************************************************)
EXTENDS Integers, Sequences, FiniteSets, TLC

VARIABLES
    mode,            \* which entry point drives the run: "chat", "rerank", "context",
                     \* "logs", "split", "stream", "clean", "city"
    pc,              \* position of the request in endpoint / generator code
    instance,        \* main.py's rag_pipeline_instance: "ok", "none", "no_retriever"
    message,         \* request.message
    query,           \* process_chat's query
    retrieve_failed, \* the retriever raised in _retrieve_documents
    initial_docs,    \* process_chat's initial_docs
    reranked_docs,   \* process_chat's reranked_docs
    rerank_failed,   \* the cross encoder raised in _rerank_documents
    context,         \* process_chat's context
    citation_map,    \* process_chat's citation_map (insertion-ordered dict)
    verify_failed,   \* the verification chain raised in _check_answerability
    is_answerable,   \* process_chat's is_answerable
    raw_chunks,      \* chunk.content of every chunk the LLM stream produced
    gen_buffer,      \* generate_response's response_buffer
    gen_yielded,     \* what generate_response has yielded
    gen_failed,      \* the LLM stream raised in generate_response
    chunks,          \* what the caller of process_chat_request has received
    response_buffer, \* process_chat's response_buffer
    calls,           \* number of invocations of each external capability
    stream_started,  \* the endpoint has returned its StreamingResponse
    raised,          \* the HTTPException the generator ended with, or NoError
    log_failed,      \* upload_blob raised in _save_chat_log
    blobs,           \* the chat-log objects uploaded
    fn_args,         \* arguments of a direct call of a pure method
    fn_result,       \* its result
    clock,           \* datetime.now(timezone.utc), in ticks of the model
    store,           \* the blob container of the chat logs: name and data of each object
    requests         \* the requests that reach _save_chat_log concurrently

vars == <<mode, pc, instance, message, query, retrieve_failed, initial_docs,
          reranked_docs, rerank_failed, context, citation_map, verify_failed,
          is_answerable,
          raw_chunks, gen_buffer, gen_yielded, gen_failed, chunks,
          response_buffer, calls, stream_started, raised, log_failed, blobs,
          fn_args, fn_result, clock, store, requests>>

-----------------------------------------------------------------------------
(* Bounds of the model *)

\* most passages the retriever returns to one chat request
MaxRetrieved == 2
\* most chunks the LLM stream produces for one chat request
MaxGenChunks == 2
\* most passages handed to a direct call of _rerank_documents
MaxRerankDocs == 6
\* most passages handed to a direct call of _prepare_context
MaxContextDocs == 10
\* passages of the worked example of _rerank_documents
ExampleDocs == 12

-----------------------------------------------------------------------------
(* Text helpers: Python str operations on sequences of characters *)

Digits == {"0", "1", "2", "3", "4", "5", "6", "7", "8", "9"}

\* the characters of [ \t]
HSpace == {" ", "\t"}

\* the characters of \s, and of str.strip() without arguments
WSpace == {" ", "\t", "\n"}

Drop(s, n) == SubSeq(s, n + 1, Len(s))

RECURSIVE Concat(_)
\* "".join(parts)
Concat(parts) ==
    IF parts = <<>> THEN <<>> ELSE Head(parts) \o Concat(Tail(parts))

RECURSIVE Join(_, _)
\* sep.join(parts)
Join(sep, parts) ==
    IF parts = <<>> THEN <<>>
    ELSE IF Len(parts) = 1 THEN parts[1]
    ELSE parts[1] \o sep \o Join(sep, Tail(parts))

RECURSIVE LStrip(_)
LStrip(s) ==
    IF s # <<>> /\ Head(s) \in WSpace THEN LStrip(Tail(s)) ELSE s

RECURSIVE RStrip(_)
RStrip(s) ==
    IF s # <<>> /\ s[Len(s)] \in WSpace THEN RStrip(SubSeq(s, 1, Len(s) - 1)) ELSE s

\* str.strip()
Strip(s) == LStrip(RStrip(s))

\* one decimal digit as a character
DigitChar(d) ==
    CASE d = 0 -> "0" [] d = 1 -> "1" [] d = 2 -> "2" [] d = 3 -> "3"
      [] d = 4 -> "4" [] d = 5 -> "5" [] d = 6 -> "6" [] d = 7 -> "7"
      [] d = 8 -> "8" [] d = 9 -> "9"

RECURSIVE Str(_)
\* str(n) for a natural number n
Str(n) ==
    IF n < 10 THEN <<DigitChar(n)>>
    ELSE Str(n \div 10) \o <<DigitChar(n % 10)>>

\* index of the first position >= i of s whose character is not in set
\* (Len(s) + 1 when there is none): the end of a greedy character-class run
RECURSIVE RunEnd(_, _, _)
RunEnd(s, i, set) ==
    IF i <= Len(s) /\ s[i] \in set THEN RunEnd(s, i + 1, set) ELSE i

-----------------------------------------------------------------------------
(* src/backend/utils.py *)

\* the literal head of the page footer, up to the space before the page
\* number
FooterHead == "Angebotsnummer 2025-12494 vom 16.03.2025 Seite"

\* the literal tail of the page footer, from the word after the page number
FooterTail == "von 224"

\* the placeholder that stands for a paragraph break during cleaning
ParaMark == "<<<PARA>>>"

\* end (exclusive) of a match of "<head> \d+ <tail>" starting at i, or 0;
\* the spaces on both sides of the page number are characters of the text
FooterEnd(s, i) ==
    IF i < Len(s) /\ s[i] = FooterHead /\ s[i + 1] = " "
    THEN LET j == RunEnd(s, i + 2, Digits)
         IN IF j > i + 2 /\ j < Len(s) /\ s[j] = " " /\ s[j + 1] = FooterTail
            THEN j + 2 ELSE 0
    ELSE 0

RECURSIVE SubFooter(_, _)
\* re.sub(r"Angebotsnummer ... Seite \d+ von 224", "", text), from position i
SubFooter(s, i) ==
    IF i > Len(s) THEN <<>>
    ELSE IF FooterEnd(s, i) # 0 THEN SubFooter(s, FooterEnd(s, i))
    ELSE <<s[i]>> \o SubFooter(s, i + 1)

RECURSIVE SubSpaceBeforeNewline(_, _)
\* re.sub(r'[ \t]+\n', '\n', text), from position i
SubSpaceBeforeNewline(s, i) ==
    IF i > Len(s) THEN <<>>
    ELSE LET j == RunEnd(s, i, HSpace)
         IN IF j > i /\ j <= Len(s) /\ s[j] = "\n"
            THEN <<"\n">> \o SubSpaceBeforeNewline(s, j + 1)
            ELSE IF j > i
            THEN SubSeq(s, i, j - 1) \o SubSpaceBeforeNewline(s, j)
            ELSE <<s[i]>> \o SubSpaceBeforeNewline(s, i + 1)

RECURSIVE SubSpaceAfterNewline(_, _)
\* re.sub(r'\n[ \t]+', '\n', text), from position i
SubSpaceAfterNewline(s, i) ==
    IF i > Len(s) THEN <<>>
    ELSE IF s[i] = "\n"
    THEN <<"\n">> \o SubSpaceAfterNewline(s, RunEnd(s, i + 1, HSpace))
    ELSE <<s[i]>> \o SubSpaceAfterNewline(s, i + 1)

RECURSIVE SubParagraphs(_, _)
\* re.sub(r'\n{2,}', '<<<PARA>>>', text), from position i
SubParagraphs(s, i) ==
    IF i > Len(s) THEN <<>>
    ELSE LET j == RunEnd(s, i, {"\n"})
         IN IF j >= i + 2 THEN <<ParaMark>> \o SubParagraphs(s, j)
            ELSE <<s[i]>> \o SubParagraphs(s, i + 1)

RECURSIVE SubNewlines(_, _)
\* re.sub(r'\n', ' ', text), from position i
SubNewlines(s, i) ==
    IF i > Len(s) THEN <<>>
    ELSE <<IF s[i] = "\n" THEN " " ELSE s[i]>> \o SubNewlines(s, i + 1)

RECURSIVE SubRestoreParagraphs(_, _)
\* re.sub(r'<<<PARA>>>', '\n\n', text), from position i
SubRestoreParagraphs(s, i) ==
    IF i > Len(s) THEN <<>>
    ELSE (IF s[i] = ParaMark THEN <<"\n", "\n">> ELSE <<s[i]>>)
         \o SubRestoreParagraphs(s, i + 1)

RECURSIVE SubSpaces(_, _)
\* re.sub(r'[ \t]+', ' ', text), from position i
SubSpaces(s, i) ==
    IF i > Len(s) THEN <<>>
    ELSE LET j == RunEnd(s, i, HSpace)
         IN IF j > i THEN <<" ">> \o SubSpaces(s, j)
            ELSE <<s[i]>> \o SubSpaces(s, i + 1)

clean_source_text(text) ==
    IF text = <<>> THEN <<>>
    ELSE LET t1 == SubFooter(text, 1)
             t2 == SubSpaceBeforeNewline(t1, 1)
             t3 == SubSpaceAfterNewline(t2, 1)
             t4 == SubParagraphs(t3, 1)
             t5 == SubNewlines(t4, 1)
             t6 == SubRestoreParagraphs(t5, 1)
             t7 == SubSpaces(t6, 1)
         IN Strip(t7)

\* end (exclusive) of the groups (?:,\s*\d+)* starting at i
RECURSIVE CitationGroupsEnd(_, _)
CitationGroupsEnd(s, i) ==
    IF i <= Len(s) /\ s[i] = ","
    THEN LET j == RunEnd(s, i + 1, WSpace)
             k == RunEnd(s, j, Digits)
         IN IF k > j THEN CitationGroupsEnd(s, k) ELSE i
    ELSE i

\* end (exclusive) of a match of \[(\d+(?:,\s*\d+)+)\] starting at i, or 0
MultiCitationEnd(s, i) ==
    IF i <= Len(s) /\ s[i] = "["
    THEN LET j == RunEnd(s, i + 1, Digits)
             k == CitationGroupsEnd(s, j)
         IN IF j > i + 1 /\ k > j /\ k <= Len(s) /\ s[k] = "]" THEN k + 1 ELSE 0
    ELSE 0

RECURSIVE SplitOnComma(_)
\* group.split(',')
SplitOnComma(s) ==
    LET hit == {i \in 1..Len(s) : s[i] = ","}
    IN IF hit = {} THEN <<s>>
       ELSE LET i == CHOOSE x \in hit : \A y \in hit : x <= y
            IN <<SubSeq(s, 1, i - 1)>> \o SplitOnComma(Drop(s, i))

\* CitationReplacement without n.strip()
CitationReplacementUnstripped(group) ==
    LET parts == SplitOnComma(group)
    IN Concat([p \in 1..Len(parts) |-> <<"[">> \o parts[p] \o <<"]">>])

\* the lambda: ''.join(f'[{n.strip()}]' for n in m.group(1).split(','))
CitationReplacement(group) ==
    LET parts == SplitOnComma(group)
    IN Concat([p \in 1..Len(parts) |-> <<"[">> \o Strip(parts[p]) \o <<"]">>])

RECURSIVE SubMultiCitations(_, _)
SubMultiCitations(s, i) ==
    IF i > Len(s) THEN <<>>
    ELSE LET e == MultiCitationEnd(s, i)
         IN IF e # 0
            THEN CitationReplacement(SubSeq(s, i + 1, e - 2)) \o SubMultiCitations(s, e)
            ELSE <<s[i]>> \o SubMultiCitations(s, i + 1)

split_multi_citations(text) == SubMultiCitations(text, 1)

-----------------------------------------------------------------------------
(* src/backend/ragpipeline.py: the methods of RagPipeline *)

\* top_n=10 of _rerank_documents
TopN == 10
\* min_docs=5 of _rerank_documents
MinDocs == 5
\* relevance_threshold=0.1 of _rerank_documents; scores are counted in tenths
RelevanceThreshold == 1

\* a Document: page_content, and the rank the retriever gave it as identity
Doc(i, text) == [id |-> i, page_content |-> text]

Min(a, b) == IF a < b THEN a ELSE b

\* s[lo:hi] for 0 <= lo and 0 <= hi
PySlice(s, lo, hi) == SubSeq(s, lo + 1, Min(hi, Len(s)))

\* zip(docs, relevance_scores): ends with the shorter of the two
Zip(docs, scores) ==
    [i \in 1..Min(Len(docs), Len(scores)) |-> <<docs[i], scores[i]>>]

\* pair x placed into the descending list after every pair whose score is
\* not smaller: equal scores keep their order of arrival
InsertByScore(sorted, x) ==
    LET keep == {i \in 1..Len(sorted) : sorted[i][2] >= x[2]}
        n == Cardinality(keep)
    IN SubSeq(sorted, 1, n) \o <<x>> \o SubSeq(sorted, n + 1, Len(sorted))

RECURSIVE SortedByScoreDesc(_)
\* sorted(pairs, key=lambda x: x[1], reverse=True): a stable sort
SortedByScoreDesc(pairs) ==
    IF pairs = <<>> THEN <<>>
    ELSE InsertByScore(SortedByScoreDesc(SubSeq(pairs, 1, Len(pairs) - 1)),
                       pairs[Len(pairs)])

\* DocsAbove with the comparison score >= relevance_threshold
RECURSIVE DocsAtLeast(_, _)
DocsAtLeast(pairs, relevance_threshold) ==
    IF pairs = <<>> THEN <<>>
    ELSE (IF pairs[1][2] >= relevance_threshold THEN <<pairs[1][1]>> ELSE <<>>)
         \o DocsAtLeast(Tail(pairs), relevance_threshold)

\* [doc for doc, score in pairs if score > relevance_threshold]
RECURSIVE DocsAbove(_, _)
DocsAbove(pairs, relevance_threshold) ==
    IF pairs = <<>> THEN <<>>
    ELSE (IF pairs[1][2] > relevance_threshold THEN <<pairs[1][1]>> ELSE <<>>)
         \o DocsAbove(Tail(pairs), relevance_threshold)

\* what cross_encoder.predict did: it returned scores, or it raised
Predicted(scores) == [ok |-> TRUE, scores |-> scores]
PredictRaised == [ok |-> FALSE, scores |-> <<>>]

\* _rerank_documents whose fallback returns docs instead of docs[:top_n]
_rerank_documents_unsliced(docs, prediction, top_n, min_docs, relevance_threshold) ==
    IF docs = <<>> THEN <<>>
    ELSE LET scored_docs == SortedByScoreDesc(Zip(docs, prediction.scores))
             head == PySlice(scored_docs, 0, min_docs)
             filtered_docs == [i \in 1..Len(head) |-> head[i][1]]
             additional_docs ==
                 DocsAbove(PySlice(scored_docs, min_docs, top_n), relevance_threshold)
         IN IF prediction.ok /\ scored_docs # <<>>
            THEN filtered_docs \o additional_docs
            ELSE docs

\* _rerank_documents, given what cross_encoder.predict did.  With no scored
\* pair, filtered_docs is unbound at line 89 and the except branch runs.
_rerank_documents(docs, prediction, top_n, min_docs, relevance_threshold) ==
    IF docs = <<>> THEN <<>>
    ELSE LET scored_docs == SortedByScoreDesc(Zip(docs, prediction.scores))
             head == PySlice(scored_docs, 0, min_docs)
             filtered_docs == [i \in 1..Len(head) |-> head[i][1]]
             additional_docs ==
                 DocsAbove(PySlice(scored_docs, min_docs, top_n), relevance_threshold)
         IN IF prediction.ok /\ scored_docs # <<>>
            THEN filtered_docs \o additional_docs
            ELSE PySlice(docs, 0, top_n)

\* d[key] = value on an insertion-ordered dict, a sequence of <<key, value>>
DictSet(d, key, value) ==
    IF \E i \in 1..Len(d) : d[i][1] = key
    THEN [i \in 1..Len(d) |-> IF d[i][1] = key THEN <<key, value>> ELSE d[i]]
    ELSE Append(d, <<key, value>>)

\* CitationNum without the + 1
CitationNumFromZero(i) == Str(i)

\* citation_num = str(i + 1), for the 0-based index i of enumerate
CitationNum(i) == Str(i + 1)

\* doc_context = f"[{citation_num}]: {cleaned_content}"
DocContext(citation_num, cleaned_content) ==
    <<"[">> \o citation_num \o <<"]", ":", " ">> \o cleaned_content

RECURSIVE CitationMapUpTo(_, _)
\* citation_map after the first n rounds of the loop of _prepare_context
CitationMapUpTo(docs, n) ==
    IF n = 0 THEN <<>>
    ELSE DictSet(CitationMapUpTo(docs, n - 1), CitationNum(n - 1),
                 clean_source_text(docs[n].page_content))

_prepare_context(docs) ==
    LET doc_contexts ==
            [i \in 1..Len(docs) |->
                DocContext(CitationNum(i - 1), clean_source_text(docs[i].page_content))]
    IN [context |-> Join(<<"\n", "\n">>, doc_contexts),
        citation_map |-> CitationMapUpTo(docs, Len(docs))]

\* str.lower() on the letters the verification answers use
LowerChar(c) ==
    CASE c = "J" -> "j" [] c = "N" -> "n" [] c = "Y" -> "y" [] OTHER -> c

Lower(s) == [i \in 1..Len(s) |-> LowerChar(s[i])]

\* sub in s
Contains(s, sub) ==
    \E i \in 0..(Len(s) - Len(sub)) : SubSeq(s, i + 1, i + Len(sub)) = sub

\* _check_answerability's reading of the verification response
AnswerSaysYes(content) ==
    LET answer_text == Lower(Strip(content))
    IN Contains(answer_text, <<"j", "a">>) \/ Contains(answer_text, <<"y", "e", "s">>)

\* unicodedata.normalize('NFC', text): a base letter followed by its
\* combining accent becomes the composed letter
RECURSIVE NFC(_)
NFC(s) ==
    IF s = <<>> THEN <<>>
    ELSE IF Len(s) >= 2 /\ s[1] = "e" /\ s[2] = "U+0301"
    THEN <<"U+00E9">> \o NFC(SubSeq(s, 3, Len(s)))
    ELSE <<s[1]>> \o NFC(Tail(s))

\* json.dumps of a str, without the quotes
RECURSIVE JsonEscape(_)
JsonEscape(s) ==
    IF s = <<>> THEN <<>>
    ELSE (CASE s[1] = "\n" -> <<"\\", "n">>
            [] s[1] = "\t" -> <<"\\", "t">>
            [] s[1] = "\"" -> <<"\\", "\"">>
            [] s[1] = "\\" -> <<"\\", "\\">>
            [] OTHER -> <<s[1]>>) \o JsonEscape(Tail(s))

\* json.dumps(citation_map, ensure_ascii=False)
JsonDumps(d) ==
    LET item(i) == <<"\"">> \o JsonEscape(d[i][1]) \o <<"\"", ":", " ", "\"">>
                   \o JsonEscape(d[i][2]) \o <<"\"">>
    IN <<"{">> \o Join(<<",", " ">>, [i \in 1..Len(d) |-> item(i)]) \o <<"}">>

\* the literal "CITATION_MAP: " of the terminal chunk
CitationMarker == "CITATION_MAP: "

\* citation_map_str = f"\n\nCITATION_MAP: {json.dumps(citation_map, ...)}"
CitationMapStr(d) == <<"\n", "\n", CitationMarker>> \o JsonDumps(d)

\* what generate_response yields for one chunk of the LLM stream
NormalizedChunk(chunk_text) == NFC(split_multi_citations(chunk_text))

\* the sentences the pipeline sends to the user
GenerationApology ==
    <<"Es ist ein Fehler bei der Generierung der Antwort aufgetreten. Bitte versuchen Sie es erneut.">>
NoDocumentsMessage ==
    <<"Ich konnte leider keine relevanten Dokumente zu Ihrer Anfrage finden.">>
NotRelevantMessage ==
    <<"Nach Pruefung der gefundenen Dokumente scheinen diese nicht relevant genug fuer Ihre Anfrage zu sein.">>
NotAnswerableMessage ==
    <<"Basierend auf den verfuegbaren Informationen kann ich Ihre Frage leider nicht direkt beantworten. Vielleicht koennen Sie Ihre Frage umformulieren?">>
UnexpectedErrorMessage ==
    <<"Ein unerwarteter interner Fehler ist aufgetreten. Bitte versuchen Sie es spaeter erneut.">>
UnavailableMessage ==
    <<"Error: The chat service is currently unavailable due to an initialization problem.">>
NoRetrieverMessage ==
    <<"Error: The document search functionality is currently unavailable.">>

\* the HTTPExceptions the pipeline raises
NoError == [status |-> 0, detail |-> ""]
EmptyQueryError == [status |-> 400, detail |-> "Nachricht darf nicht leer sein"]
RetrievalError ==
    [status |-> 500, detail |-> "Fehler beim Abrufen relevanter Dokumente."]

-----------------------------------------------------------------------------
(* Inputs the environment supplies *)

\* request.message
Messages == {<<>>, <<" ">>, <<"q">>, <<" ", "q", " ">>}

\* page_content of the passages in the index
PassageTexts == {<<"a">>, <<"b", " ", "\n", "c">>}

\* relevance scores of the cross encoder, in tenths
Scores == {0, 1, 2}

\* chunk.content of the chunks of the LLM stream
RawChunks ==
    {<<>>, <<"a">>, <<"[", "1", ",", " ", "2", "]">>, <<"e", "U+0301">>}

\* response.content of the verification chain
VerifyAnswers == {<<"J", "a">>, <<"N", "e", "i", "n">>, <<" ", "Y", "e", "s", ".">>}

\* the lists of at most n elements of set
SeqsUpTo(set, n) == UNION {[1..k -> set] : k \in 0..n}

\* the results the retriever can return: at most n passages, in rank order
Retrievable(n) ==
    {[i \in 1..Len(texts) |-> Doc(i, texts[i])] : texts \in SeqsUpTo(PassageTexts, n)}

NoCalls == [retriever |-> 0, reranker |-> 0, verify |-> 0, generate |-> 0, log |-> 0]

Called(what) == [calls EXCEPT ![what] = @ + 1]

\* the state of a request nothing has touched yet
Untouched ==
    /\ query = <<>>
    /\ retrieve_failed = FALSE
    /\ initial_docs = <<>>
    /\ reranked_docs = <<>>
    /\ rerank_failed = FALSE
    /\ context = <<>>
    /\ citation_map = <<>>
    /\ verify_failed = FALSE
    /\ is_answerable = FALSE
    /\ raw_chunks = <<>>
    /\ gen_buffer = <<>>
    /\ gen_yielded = <<>>
    /\ gen_failed = FALSE
    /\ chunks = <<>>
    /\ response_buffer = <<>>
    /\ calls = NoCalls
    /\ stream_started = FALSE
    /\ raised = NoError
    /\ log_failed = FALSE
    /\ blobs = <<>>
    /\ clock = 0
    /\ store = {}
    /\ requests = <<>>

NoCall == [fn |-> "none"]

\* a POST /chat arrives at a process whose startup succeeded or failed
InitChat ==
    /\ mode = "chat"
    /\ pc = "endpoint"
    /\ instance \in {"ok", "none", "no_retriever"}
    /\ message \in Messages
    /\ Untouched
    /\ fn_args = NoCall
    /\ fn_result = <<>>

requestVars == <<query, retrieve_failed, initial_docs, reranked_docs, rerank_failed, context,
                 citation_map, verify_failed, is_answerable>>
genVars == <<raw_chunks, gen_buffer, gen_yielded, gen_failed>>
fixedVars == <<mode, instance, message, fn_args, clock, store, requests>>

\* app.py get_chatbot_response: returns the StreamingResponse over the
\* generator; no line of the generator has run yet
Endpoint ==
    /\ mode = "chat" /\ pc = "endpoint"
    /\ stream_started' = TRUE
    /\ pc' = "request"
    /\ UNCHANGED <<requestVars, genVars, fixedVars, fn_result, chunks, response_buffer,
                   calls, raised, log_failed, blobs>>

\* main.py process_chat_request, lines 60-69: the pipeline is unavailable
Unavailable ==
    /\ mode = "chat" /\ pc = "request"
    /\ instance # "ok"
    /\ chunks' = Append(chunks, IF instance = "none" THEN UnavailableMessage
                                ELSE NoRetrieverMessage)
    /\ pc' = "done"
    /\ UNCHANGED <<requestVars, genVars, fixedVars, fn_result, response_buffer, calls,
                   stream_started, raised, log_failed, blobs>>

\* Validate with the emptiness test on the untrimmed message
ValidateUntrimmed ==
    /\ mode = "chat" /\ pc = "request"
    /\ instance = "ok"
    /\ query' = Strip(message)
    /\ IF message = <<>>
       THEN /\ raised' = EmptyQueryError
            /\ pc' = "done"
       ELSE /\ raised' = raised
            /\ pc' = "retrieve"
    /\ UNCHANGED <<retrieve_failed, initial_docs, reranked_docs, rerank_failed,
                   context, citation_map, verify_failed, is_answerable, genVars,
                   fixedVars, fn_result, chunks, response_buffer, calls,
                   stream_started, log_failed, blobs>>

\* process_chat, lines 207-213: strip and validate; the HTTPException passes
\* process_chat's and process_chat_request's "except HTTPException: raise"
Validate ==
    /\ mode = "chat" /\ pc = "request"
    /\ instance = "ok"
    /\ query' = Strip(message)
    /\ IF Strip(message) = <<>>
       THEN /\ raised' = EmptyQueryError
            /\ pc' = "done"
       ELSE /\ raised' = raised
            /\ pc' = "retrieve"
    /\ UNCHANGED <<retrieve_failed, initial_docs, reranked_docs, rerank_failed,
                   context, citation_map, verify_failed, is_answerable, genVars,
                   fixedVars, fn_result, chunks, response_buffer, calls, stream_started,
                   log_failed, blobs>>

\* process_chat lines 217-221 with _retrieve_documents: the retriever returns
RetrieveReturns ==
    /\ mode = "chat" /\ pc = "retrieve"
    /\ \E docs \in Retrievable(MaxRetrieved) :
          /\ initial_docs' = docs
          /\ IF docs = <<>>
             THEN /\ chunks' = Append(chunks, NoDocumentsMessage)
                  /\ pc' = "done"
             ELSE /\ chunks' = chunks
                  /\ pc' = "rerank"
    /\ calls' = Called("retriever")
    /\ UNCHANGED <<query, retrieve_failed, reranked_docs, rerank_failed, context, citation_map,
                   verify_failed, is_answerable, genVars, fixedVars, fn_result,
                   response_buffer, stream_started, raised, log_failed, blobs>>

\* RetrieveRaises with the failure swallowed into an empty result
RetrieveRaisesSwallowed ==
    /\ mode = "chat" /\ pc = "retrieve"
    /\ calls' = Called("retriever")
    /\ retrieve_failed' = TRUE
    /\ chunks' = Append(chunks, NoDocumentsMessage)
    /\ pc' = "done"
    /\ UNCHANGED <<query, initial_docs, reranked_docs, rerank_failed, context,
                   citation_map, verify_failed, is_answerable, genVars,
                   fixedVars, fn_result, response_buffer, raised,
                   stream_started, log_failed, blobs>>

\* _retrieve_documents lines 62-64: the retriever raises
RetrieveRaises ==
    /\ mode = "chat" /\ pc = "retrieve"
    /\ calls' = Called("retriever")
    /\ raised' = RetrievalError
    /\ retrieve_failed' = TRUE
    /\ pc' = "done"
    /\ UNCHANGED <<query, initial_docs, reranked_docs, rerank_failed, context,
                   citation_map, verify_failed, is_answerable, genVars, fixedVars, fn_result, chunks, response_buffer,
                   stream_started, log_failed, blobs>>

\* process_chat lines 224-228 with _rerank_documents
Rerank ==
    /\ mode = "chat" /\ pc = "rerank"
    /\ \E prediction \in {PredictRaised} \cup
                {Predicted(sc) : sc \in [1..Len(initial_docs) -> Scores]} :
          LET docs == _rerank_documents(initial_docs, prediction, TopN, MinDocs,
                                        RelevanceThreshold)
          IN /\ rerank_failed' = ~prediction.ok
             /\ reranked_docs' = docs
             /\ IF docs = <<>>
                THEN /\ chunks' = Append(chunks, NotRelevantMessage)
                     /\ pc' = "done"
                ELSE /\ chunks' = chunks
                     /\ pc' = "context"
    /\ calls' = Called("reranker")
    /\ UNCHANGED <<query, retrieve_failed, initial_docs, context, citation_map, verify_failed,
                   is_answerable, genVars, fixedVars, fn_result, response_buffer,
                   stream_started, raised, log_failed, blobs>>

\* process_chat line 231
PrepareContext ==
    /\ mode = "chat" /\ pc = "context"
    /\ context' = _prepare_context(reranked_docs).context
    /\ citation_map' = _prepare_context(reranked_docs).citation_map
    /\ pc' = "verify"
    /\ UNCHANGED <<query, retrieve_failed, initial_docs, reranked_docs, rerank_failed,
                   verify_failed, is_answerable, genVars, fixedVars, fn_result, chunks,
                   response_buffer, calls, stream_started, raised, log_failed,
                   blobs>>

\* AfterAnswerability with the refusal passing on to _save_chat_log
AfterAnswerabilityLogged(answerable) ==
    /\ is_answerable' = answerable
    /\ IF answerable
       THEN /\ chunks' = chunks
            /\ pc' = "generate"
       ELSE /\ chunks' = Append(chunks, NotAnswerableMessage)
            /\ pc' = "log"

\* AfterAnswerability with the refusal yielded and generation started all
\* the same
AfterAnswerabilityUnreturned(answerable) ==
    /\ is_answerable' = answerable
    /\ IF answerable
       THEN /\ chunks' = chunks
            /\ pc' = "generate"
       ELSE /\ chunks' = Append(chunks, NotAnswerableMessage)
            /\ pc' = "generate"

\* process_chat lines 234-238 after _check_answerability returned answerable
AfterAnswerability(answerable) ==
    /\ is_answerable' = answerable
    /\ IF answerable
       THEN /\ chunks' = chunks
            /\ pc' = "generate"
       ELSE /\ chunks' = Append(chunks, NotAnswerableMessage)
            /\ pc' = "done"

\* _check_answerability lines 113-130: the verification chain answers
\* (or is not asked, the context being empty)
CheckAnswerability ==
    /\ mode = "chat" /\ pc = "verify"
    /\ IF context = <<>>
       THEN /\ calls' = calls
            /\ AfterAnswerability(FALSE)
       ELSE /\ calls' = Called("verify")
            /\ \E content \in VerifyAnswers :
                  AfterAnswerability(AnswerSaysYes(content))
    /\ verify_failed' = FALSE
    /\ UNCHANGED <<query, retrieve_failed, initial_docs, reranked_docs, rerank_failed, context,
                   citation_map, genVars, fixedVars, fn_result, response_buffer,
                   stream_started, raised, log_failed, blobs>>

\* AnswerabilityRaises with "return False" in the except branch
AnswerabilityRaisesRefuses ==
    /\ mode = "chat" /\ pc = "verify"
    /\ context # <<>>
    /\ calls' = Called("verify")
    /\ verify_failed' = TRUE
    /\ AfterAnswerability(FALSE)
    /\ UNCHANGED <<query, retrieve_failed, initial_docs, reranked_docs,
                   rerank_failed, context, citation_map, genVars, fixedVars,
                   fn_result, response_buffer, stream_started, raised,
                   log_failed, blobs>>

\* _check_answerability lines 131-133: the verification chain raises
AnswerabilityRaises ==
    /\ mode = "chat" /\ pc = "verify"
    /\ context # <<>>
    /\ calls' = Called("verify")
    /\ verify_failed' = TRUE
    /\ AfterAnswerability(TRUE)
    /\ UNCHANGED <<query, retrieve_failed, initial_docs, reranked_docs, rerank_failed, context,
                   citation_map, genVars, fixedVars, fn_result, response_buffer,
                   stream_started, raised, log_failed, blobs>>

\* generate_response lines 137-151: the generation chain is asked to stream
StartGeneration ==
    /\ mode = "chat" /\ pc = "generate"
    /\ calls' = Called("generate")
    /\ pc' = "streaming"
    /\ UNCHANGED <<requestVars, genVars, fixedVars, fn_result, chunks, response_buffer,
                   stream_started, raised, log_failed, blobs>>

\* YieldFromGeneration with process_chat relaying the chunk without adding
\* it to its response_buffer
YieldFromGenerationUnbuffered(text) ==
    /\ gen_yielded' = Append(gen_yielded, text)
    /\ response_buffer' = response_buffer
    /\ chunks' = Append(chunks, text)

\* generate_response yields text; process_chat lines 241-243 relay it
YieldFromGeneration(text) ==
    /\ gen_yielded' = Append(gen_yielded, text)
    /\ response_buffer' = response_buffer \o text
    /\ chunks' = Append(chunks, text)

\* generate_response lines 147-158: the LLM stream produces one chunk
GenerateChunk ==
    /\ mode = "chat" /\ pc = "streaming"
    /\ Len(raw_chunks) < MaxGenChunks
    /\ \E chunk_text \in RawChunks :
          /\ raw_chunks' = Append(raw_chunks, chunk_text)
          /\ IF chunk_text # <<>>
             THEN /\ gen_buffer' = gen_buffer \o NormalizedChunk(chunk_text)
                  /\ YieldFromGeneration(NormalizedChunk(chunk_text))
             ELSE UNCHANGED <<gen_buffer, gen_yielded, response_buffer, chunks>>
    /\ UNCHANGED <<requestVars, gen_failed, fixedVars, fn_result, pc, calls,
                   stream_started, raised, log_failed, blobs>>

\* GenerateCompletes with the citation map buffered but not yielded
GenerateCompletesSilent ==
    /\ mode = "chat" /\ pc = "streaming"
    /\ gen_buffer' = gen_buffer \o CitationMapStr(citation_map)
    /\ pc' = "log"
    /\ UNCHANGED <<requestVars, raw_chunks, gen_yielded, gen_failed, chunks,
                   response_buffer, fixedVars, fn_result, calls, stream_started,
                   raised, log_failed, blobs>>

\* generate_response lines 162-168: the LLM stream ends
GenerateCompletes ==
    /\ mode = "chat" /\ pc = "streaming"
    /\ YieldFromGeneration(CitationMapStr(citation_map))
    /\ gen_buffer' = gen_buffer \o CitationMapStr(citation_map)
    /\ pc' = "log"
    /\ UNCHANGED <<requestVars, raw_chunks, gen_failed, fixedVars, fn_result, calls,
                   stream_started, raised, log_failed, blobs>>

\* GenerateRaises without the test of response_buffer
GenerateRaisesApologising ==
    /\ mode = "chat" /\ pc = "streaming"
    /\ gen_failed' = TRUE
    /\ YieldFromGeneration(GenerationApology)
    /\ pc' = "log"
    /\ UNCHANGED <<requestVars, raw_chunks, gen_buffer, fixedVars, fn_result,
                   calls, stream_started, raised, log_failed, blobs>>

\* generate_response lines 169-175: the LLM stream raises
GenerateRaises ==
    /\ mode = "chat" /\ pc = "streaming"
    /\ gen_failed' = TRUE
    /\ IF gen_buffer = <<>>
       THEN YieldFromGeneration(GenerationApology)
       ELSE UNCHANGED <<gen_yielded, response_buffer, chunks>>
    /\ pc' = "log"
    /\ UNCHANGED <<requestVars, raw_chunks, gen_buffer, fixedVars, fn_result, calls,
                   stream_started, raised, log_failed, blobs>>

\* the chat-log object _save_chat_log uploads
LogData(q, response, ctx) == [query |-> q, response |-> response, context |-> ctx]

\* SaveChatLog without the try/except of _save_chat_log: the failed upload
\* reaches process_chat's "except Exception"
SaveChatLogPropagating ==
    /\ mode = "chat" /\ pc = "log"
    /\ calls' = Called("log")
    /\ \E ok \in BOOLEAN :
          /\ log_failed' = ~ok
          /\ blobs' = IF ok THEN Append(blobs, LogData(query, response_buffer, context))
                      ELSE blobs
          /\ chunks' = IF ok THEN chunks ELSE Append(chunks, UnexpectedErrorMessage)
    /\ pc' = "done"
    /\ UNCHANGED <<requestVars, genVars, fixedVars, fn_result, response_buffer,
                   stream_started, raised>>

\* process_chat line 249 with _save_chat_log: the upload succeeds or raises,
\* and the generator ends
SaveChatLog ==
    /\ mode = "chat" /\ pc = "log"
    /\ calls' = Called("log")
    /\ \E ok \in BOOLEAN :
          /\ log_failed' = ~ok
          /\ blobs' = IF ok THEN Append(blobs, LogData(query, response_buffer, context))
                      ELSE blobs
    /\ pc' = "done"
    /\ UNCHANGED <<requestVars, genVars, fixedVars, fn_result, chunks, response_buffer,
                   stream_started, raised>>

-----------------------------------------------------------------------------
(* Direct calls of the pure methods _rerank_documents and _prepare_context *)

\* <<top_n, min_docs>> of a direct call: the defaults, and smaller windows
RerankParams == {<<TopN, MinDocs>>, <<4, 2>>, <<3, 0>>, <<2, 2>>}

\* n passages in retrieval order
Ranked(n) == [i \in 1..n |-> Doc(i, <<"a">>)]

\* score lists of length n that fall (or, reversed, rise) in two steps
StepScores(n) ==
    LET falling(i, j) == [k \in 1..n |-> IF k <= i THEN 2 ELSE IF k <= j THEN 1 ELSE 0]
    IN UNION {{falling(i, j), [k \in 1..n |-> falling(i, j)[n + 1 - k]]} :
              i \in 0..n, j \in 0..n}

\* the arguments of a direct call of _rerank_documents
RerankCall(docs, prediction, top_n, min_docs) ==
    [fn |-> "_rerank_documents", docs |-> docs, prediction |-> prediction,
     top_n |-> top_n, min_docs |-> min_docs]

\* what cross_encoder.predict can do with n passages, scores drawn from set
Predictions(n, set) == {PredictRaised} \cup {Predicted(sc) : sc \in set}

\* a direct call: every score list over at most MaxRerankDocs passages under
\* each window, or ExampleDocs passages with stepped scores under the
\* default window
InitRerank ==
    /\ mode = "rerank"
    /\ pc = "call"
    /\ instance = "ok"
    /\ message = <<>>
    /\ Untouched
    /\ \/ \E n \in 0..MaxRerankDocs, w \in RerankParams :
             \E pr \in Predictions(n, [1..n -> Scores]) :
                fn_args = RerankCall(Ranked(n), pr, w[1], w[2])
       \/ \E pr \in Predictions(ExampleDocs, StepScores(ExampleDocs)) :
             fn_args = RerankCall(Ranked(ExampleDocs), pr, TopN, MinDocs)
    /\ fn_result = <<>>

\* a direct call of _prepare_context on at most MaxContextDocs passages
InitContext ==
    /\ mode = "context"
    /\ pc = "call"
    /\ instance = "ok"
    /\ message = <<>>
    /\ Untouched
    /\ \E n \in 0..MaxContextDocs :
          \E texts \in [1..n -> PassageTexts] :
             fn_args = [fn |-> "_prepare_context",
                        docs |-> [i \in 1..n |-> Doc(i, texts[i])]]
    /\ fn_result = <<>>

Init == InitChat \/ InitRerank \/ InitContext

chatVars == <<requestVars, genVars, chunks, response_buffer, calls,
              stream_started, raised, log_failed, blobs>>

\* _rerank_documents is called and returns
CallRerank ==
    /\ mode = "rerank" /\ pc = "call"
    /\ fn_result' = <<_rerank_documents(fn_args.docs, fn_args.prediction,
                                        fn_args.top_n, fn_args.min_docs,
                                        RelevanceThreshold)>>
    /\ pc' = "returned"
    /\ UNCHANGED <<chatVars, fixedVars>>

\* _prepare_context is called and returns, a first and a second time
CallPrepareContext ==
    /\ mode = "context" /\ pc \in {"call", "called"}
    /\ fn_result' = Append(fn_result, _prepare_context(fn_args.docs))
    /\ pc' = IF pc = "call" THEN "called" ELSE "returned"
    /\ UNCHANGED <<chatVars, fixedVars>>

\* The "except Exception" branches of process_chat (lines 253-256) and of
\* process_chat_request (lines 78-80) have no action: every callee of the
\* try block either catches Exception itself (_rerank_documents,
\* _check_answerability, generate_response, _save_chat_log) or raises
\* HTTPException (_retrieve_documents).
Next ==
    \/ Endpoint
    \/ Unavailable
    \/ Validate
    \/ RetrieveReturns
    \/ RetrieveRaises
    \/ Rerank
    \/ PrepareContext
    \/ CheckAnswerability
    \/ AnswerabilityRaises
    \/ StartGeneration
    \/ GenerateChunk
    \/ GenerateCompletes
    \/ GenerateRaises
    \/ SaveChatLog
    \/ CallRerank
    \/ CallPrepareContext

Spec == Init /\ [][Next]_vars

-----------------------------------------------------------------------------
(* Concurrent requests at _save_chat_log *)

\* requests that reach _save_chat_log in one run
NumRequests == 2
\* ticks of the model's clock in one second
TicksPerSecond == 2
\* last tick of the model's clock
MaxClock == 4

Requests == 1..NumRequests

\* answers a request can have collected in its response_buffer
LoggedResponses == {<<"a">>, <<"b">>}

\* strftime("%Y%m%d_%H%M%S") of the clock: the date and the whole seconds,
\* the fraction of the second dropped
Timestamp(t) == <<"YYYYMMDD_">> \o Str(t \div TicksPerSecond)

\* _save_chat_log line 182: the name of the log object
Filename(t) == <<"chat_logs/chat_">> \o Timestamp(t) \o <<".json">>

\* container_client.upload_blob(name, data, overwrite=True)
upload_blob(container, name, data) ==
    {b \in container : b.name # name} \cup {[name |-> name, data |-> data]}

\* the query of request r: no two requests ask the same
QueryOf(r) == <<"q">> \o Str(r)

\* NumRequests requests have streamed their answers and are about to call
\* _save_chat_log
InitLogs ==
    /\ mode = "logs"
    /\ pc = "serving"
    /\ instance = "ok"
    /\ message = <<>>
    /\ query = <<>>
    /\ retrieve_failed = FALSE
    /\ initial_docs = <<>>
    /\ reranked_docs = <<>>
    /\ rerank_failed = FALSE
    /\ context = <<>>
    /\ citation_map = <<>>
    /\ verify_failed = FALSE
    /\ is_answerable = FALSE
    /\ raw_chunks = <<>>
    /\ gen_buffer = <<>>
    /\ gen_yielded = <<>>
    /\ gen_failed = FALSE
    /\ chunks = <<>>
    /\ response_buffer = <<>>
    /\ calls = NoCalls
    /\ stream_started = TRUE
    /\ raised = NoError
    /\ log_failed = FALSE
    /\ blobs = <<>>
    /\ fn_args = NoCall
    /\ fn_result = <<>>
    /\ clock = 0
    /\ store = {}
    /\ \E responses \in [Requests -> LoggedResponses] :
          requests = [r \in Requests |->
                        [pc |-> "log", query |-> QueryOf(r),
                         response |-> responses[r], filename |-> <<>>]]

pipelineVars == <<mode, pc, instance, message, chatVars, fn_args, fn_result>>

\* time passes
Tick ==
    /\ mode = "logs"
    /\ clock < MaxClock
    /\ clock' = clock + 1
    /\ UNCHANGED <<pipelineVars, store, requests>>

\* _save_chat_log of request r (lines 177-203): the object is named after
\* the current second and uploaded with overwrite=True; a failed upload is
\* logged and swallowed
SaveChatLogOf(r) ==
    /\ mode = "logs"
    /\ requests[r].pc = "log"
    /\ \E ok \in BOOLEAN :
          IF ok
          THEN /\ store' = upload_blob(store, Filename(clock),
                                       LogData(requests[r].query, requests[r].response,
                                               <<>>))
               /\ requests' = [requests EXCEPT ![r].pc = "logged",
                                               ![r].filename = Filename(clock)]
          ELSE /\ store' = store
               /\ requests' = [requests EXCEPT ![r].pc = "failed"]
    /\ UNCHANGED <<pipelineVars, clock>>

SaveChatLogOfAny == \E r \in Requests : SaveChatLogOf(r)

NextLogs ==
    \/ Tick
    \/ SaveChatLogOfAny

SpecLogs == InitLogs /\ [][NextLogs]_vars

-----------------------------------------------------------------------------
(* Direct calls of split_multi_citations *)

\* longest generated text handed to split_multi_citations
MaxSplitLen == 6

\* the characters of the generated texts
SplitAlphabet == {"[", "]", ",", " ", "1"}

\* "See [2, 4] and [7]."
SplitExample ==
    <<"S", "e", "e", " ", "[", "2", ",", " ", "4", "]", " ", "a", "n", "d", " ",
      "[", "7", "]", ".">>

\* texts with letters, other digits and other white space
SplitExamples ==
    {SplitExample,
     <<"a", "[", "1", "0", ",", "\n", "2", ",", "\t", " ", "3", "]", "b">>,
     <<"[", "1", ",", "2", "]", "[", "3", "]", "[", "4", ",", "5", "]">>,
     <<"[", "a", ",", "1", "]", " ", "[", "1", " ", ",", "2", "]", " ", "[", "1", ",", "]">>}

\* a call of split_multi_citations(text) on every text over SplitAlphabet of
\* at most MaxSplitLen characters, and on the examples
InitSplit ==
    /\ mode = "split"
    /\ pc = "call"
    /\ instance = "ok"
    /\ message = <<>>
    /\ Untouched
    /\ \E text \in SeqsUpTo(SplitAlphabet, MaxSplitLen) \cup SplitExamples :
          fn_args = [fn |-> "split_multi_citations", text |-> text]
    /\ fn_result = <<>>

\* split_multi_citations is called on the text and returns, and is called
\* on what it returned and returns
CallSplit ==
    /\ mode = "split" /\ pc \in {"call", "called"}
    /\ fn_result' = Append(fn_result,
                           split_multi_citations(IF pc = "call" THEN fn_args.text
                                                 ELSE fn_result[1]))
    /\ pc' = IF pc = "call" THEN "called" ELSE "returned"
    /\ UNCHANGED <<chatVars, fixedVars>>

NextSplit == CallSplit

SpecSplit == InitSplit /\ [][NextSplit]_vars

-----------------------------------------------------------------------------
(* The generation loop of generate_response over a chunked answer *)

\* longest generated answer of the LLM
MaxStreamLen == 5

\* the answer the LLM streams, cut into two chunks at every place (an
\* empty chunk included)
Chunkings(text) ==
    {<<SubSeq(text, 1, cut), Drop(text, cut)>> : cut \in 0..Len(text)}

\* generation_chain.astream is about to produce an answer over
\* SplitAlphabet of at most MaxStreamLen characters, in two chunks
InitStream ==
    /\ mode = "stream"
    /\ pc = "streaming"
    /\ instance = "ok"
    /\ message = <<>>
    /\ Untouched
    /\ \E text \in SeqsUpTo(SplitAlphabet, MaxStreamLen) :
          \E parts \in Chunkings(text) :
             fn_args = [fn |-> "generate_response", chunks |-> parts]
    /\ fn_result = <<>>

\* generate_response lines 147-158: the next chunk of the stream arrives;
\* a non-empty one is normalized, buffered and yielded
StreamChunk ==
    /\ mode = "stream" /\ pc = "streaming"
    /\ Len(raw_chunks) < Len(fn_args.chunks)
    /\ LET chunk_text == fn_args.chunks[Len(raw_chunks) + 1]
       IN /\ raw_chunks' = Append(raw_chunks, chunk_text)
          /\ IF chunk_text # <<>>
             THEN /\ gen_buffer' = gen_buffer \o NormalizedChunk(chunk_text)
                  /\ gen_yielded' = Append(gen_yielded, NormalizedChunk(chunk_text))
             ELSE UNCHANGED <<gen_buffer, gen_yielded>>
    /\ pc' = IF Len(raw_chunks') = Len(fn_args.chunks) THEN "streamed" ELSE pc
    /\ UNCHANGED <<requestVars, gen_failed, chunks, response_buffer, calls, stream_started,
                   raised, log_failed, blobs, fixedVars, fn_result>>

NextStream == StreamChunk

SpecStream == InitStream /\ [][NextStream]_vars

-----------------------------------------------------------------------------
(* Direct calls of clean_source_text *)

\* longest generated text handed to clean_source_text
MaxCleanLen == 5

\* the characters of the generated texts
CleanAlphabet == {"a", " ", "\n", "1", FooterHead, FooterTail}

\* "Line one\nwrapped continuation\n\nNew paragraph", a word a letter
CleanExample == <<"a", " ", "b", "\n", "c", " ", "d", "\n", "\n", "e", " ", "f">>

\* texts with tabs, longer runs of newlines and the placeholder
CleanExamples ==
    {CleanExample,
     <<" ", "a", "\t", "\n", "\t", "b", "\n", "\n", "\n", "c", "\t", "\t", "d", "\n">>,
     <<"a", " ", FooterHead, " ", "1", "2", " ", FooterTail, "\n", "b">>,
     <<"a", ParaMark, "b">>}

\* a call of clean_source_text(text) on every text over CleanAlphabet of at
\* most MaxCleanLen characters, and on the examples
InitClean ==
    /\ mode = "clean"
    /\ pc = "call"
    /\ instance = "ok"
    /\ message = <<>>
    /\ Untouched
    /\ \E text \in SeqsUpTo(CleanAlphabet, MaxCleanLen) \cup CleanExamples :
          fn_args = [fn |-> "clean_source_text", text |-> text]
    /\ fn_result = <<>>

\* clean_source_text is called on the text and returns, and is called on
\* what it returned and returns
CallClean ==
    /\ mode = "clean" /\ pc \in {"call", "called"}
    /\ fn_result' = Append(fn_result,
                           clean_source_text(IF pc = "call" THEN fn_args.text
                                             ELSE fn_result[1]))
    /\ pc' = IF pc = "call" THEN "called" ELSE "returned"
    /\ UNCHANGED <<chatVars, fixedVars>>

NextClean == CallClean

SpecClean == InitClean /\ [][NextClean]_vars

-----------------------------------------------------------------------------
(* src/backend/weather.py: WeatherClient._extract_city.  In a query the     *)
(* words are single elements; blanks and punctuation are characters.       *)

\* longest generated query handed to _extract_city
MaxQueryLen == 5

\* str.lower() of a word or character of a query
LowerWord(w) ==
    CASE w = "IN" -> "in" [] w = "At" -> "at" [] w = "For" -> "for"
      [] w = "ROME" -> "rome" [] w = "Rome" -> "rome" [] w = "What" -> "what"
      [] OTHER -> w

\* query.lower()
LowerQuery(s) == [i \in 1..Len(s) |-> LowerWord(s[i])]

\* the list [" in ", " at ", " for "]
CityMarkers == << <<" ", "in", " ">>, <<" ", "at", " ">>, <<" ", "for", " ">> >>

\* the characters of strip("?!. ,")
CityStripChars == {"?", "!", ".", " ", ","}

RECURSIVE StripChars(_, _)
\* s.strip(chars)
StripChars(s, chars) ==
    IF s # <<>> /\ Head(s) \in chars THEN StripChars(Tail(s), chars)
    ELSE IF s # <<>> /\ s[Len(s)] \in chars
    THEN StripChars(SubSeq(s, 1, Len(s) - 1), chars)
    ELSE s

\* sub occurs in s at offset i (counted from 0)
OccursAt(s, sub, i) == i + Len(sub) <= Len(s) /\ SubSeq(s, i + 1, i + Len(sub)) = sub

\* s.index(sub), for a sub that is in s
Index(s, sub) ==
    CHOOSE i \in 0..Len(s) : OccursAt(s, sub, i) /\ \A j \in 0..(i - 1) : ~OccursAt(s, sub, j)

\* Optional[str]
None == [some |-> FALSE, value |-> <<>>]
Some(v) == [some |-> TRUE, value |-> v]

\* .strip().strip("?!. ,")
CityTrim(s) == StripChars(Strip(s), CityStripChars)

\* _extract_city taking the marker that occurs first in the query, whichever
\* of the three it is
_extract_city_by_position(q) ==
    LET text == LowerQuery(q)
        hits == {i \in 0..Len(text) : \E m \in 1..Len(CityMarkers) :
                                         OccursAt(text, CityMarkers[m], i)}
    IN IF hits # {}
       THEN LET i == CHOOSE x \in hits : \A y \in hits : x <= y
                m == CHOOSE x \in 1..Len(CityMarkers) : OccursAt(text, CityMarkers[x], i)
            IN Some(CityTrim(Drop(q, i + Len(CityMarkers[m]))))
       ELSE IF CityTrim(q) = <<>> THEN None ELSE Some(CityTrim(q))

\* WeatherClient._extract_city (lines 35-41): the markers are tried in the
\* order of the list, and the first of them that is in the lower-cased
\* query decides
_extract_city(q) ==
    LET text == LowerQuery(q)
        present == {m \in 1..Len(CityMarkers) : Contains(text, CityMarkers[m])}
    IN IF present # {}
       THEN LET m == CHOOSE x \in present : \A y \in present : x <= y
                marker == CityMarkers[m]
            IN Some(CityTrim(Drop(q, Index(text, marker) + Len(marker))))
       ELSE IF CityTrim(q) = <<>> THEN None ELSE Some(CityTrim(q))

\* the words and characters of the generated queries
QueryAlphabet == {" ", "in", "at", "for", "Rome", "?"}

\* "What is the weather in Rome?"
CityExample ==
    <<"What", " ", "is", " ", "the", " ", "weather", " ", "in", " ", "Rome", "?">>

\* queries with capitals, tabs and other punctuation
CityExamples ==
    {CityExample,
     <<"weather", " ", "At", " ", "Rome", " ", "IN", " ", "Italy", "!">>,
     <<"\t", " ", ",", "Rome", ".", " ", "\n">>,
     <<"umbrella", " ", "For", " ", " ", ".", "Rome", " ", "for", " ", "May", "?", " ">>}

\* a call of _extract_city(query) on every query over QueryAlphabet of at
\* most MaxQueryLen words and characters, and on the examples
InitCity ==
    /\ mode = "city"
    /\ pc = "call"
    /\ instance = "ok"
    /\ message = <<>>
    /\ Untouched
    /\ \E q \in SeqsUpTo(QueryAlphabet, MaxQueryLen) \cup CityExamples :
          fn_args = [fn |-> "_extract_city", query |-> q]
    /\ fn_result = <<>>

\* _extract_city is called and returns
CallExtractCity ==
    /\ mode = "city" /\ pc = "call"
    /\ fn_result' = <<_extract_city(fn_args.query)>>
    /\ pc' = "returned"
    /\ UNCHANGED <<chatVars, fixedVars>>

NextCity == CallExtractCity

SpecCity == InitCity /\ [][NextCity]_vars

-----------------------------------------------------------------------------
(* Properties of the chat request *)

\* the request has ended: the generator returned or raised
Ended == mode = "chat" /\ pc = "done"

\* what generate_response yields for the chunks of the LLM stream: every
\* non-empty chunk, normalized, in the order of generation
RECURSIVE Prose(_)
Prose(raw) ==
    IF raw = <<>> THEN <<>>
    ELSE (IF raw[1] # <<>> THEN <<NormalizedChunk(raw[1])>> ELSE <<>>)
         \o Prose(Tail(raw))

\* chunk begins with the citation-map marker "\n\nCITATION_MAP: "
IsCitationChunk(chunk) ==
    Len(chunk) >= 3 /\ SubSeq(chunk, 1, 3) = <<"\n", "\n", CitationMarker>>

\* the LLM stream of this request ended without raising
GenerationCompleted ==
    mode = "chat" /\ pc \in {"log", "done"} /\ calls.generate = 1 /\ ~gen_failed

\* C1: a request whose message is empty after trimming fails with the
\* empty-query error before any external call: the retriever, the reranker,
\* the LLM (verification and generation) and the chat-log sink are called
\* zero times, nothing is uploaded and process_chat yields no chunk.
C1_EmptyQueryFailsFast ==
    (mode = "chat" /\ Strip(message) = <<>>) =>
        /\ calls = NoCalls
        /\ blobs = <<>>
        /\ raised \in {NoError, EmptyQueryError}
        /\ instance = "ok" =>
              /\ chunks = <<>>
              /\ pc \in {"endpoint", "request", "done"}
              /\ pc = "done" => raised = EmptyQueryError

C1_Witness ==
    /\ Ended /\ instance = "ok"
    /\ message = <<" ">>
    /\ raised = EmptyQueryError

\* C2: when generation runs to completion, the caller has received the
\* generated chunks in generation order followed by exactly one chunk that
\* begins with the citation-map marker; that chunk is the last one, also
\* after the chat log is saved, and it occurs once.  While the LLM is
\* still streaming, no chunk beginning with the marker has been relayed.
C2_CitationMapLast ==
    /\ GenerationCompleted =>
          /\ chunks = Prose(raw_chunks) \o <<CitationMapStr(citation_map)>>
          /\ IsCitationChunk(chunks[Len(chunks)])
          /\ \A i \in 1..(Len(chunks) - 1) : ~IsCitationChunk(chunks[i])
    /\ (mode = "chat" /\ pc = "streaming") =>
          /\ chunks = Prose(raw_chunks)
          /\ \A i \in 1..Len(chunks) : ~IsCitationChunk(chunks[i])

C2_Witness ==
    /\ Ended /\ GenerationCompleted
    /\ Len(raw_chunks) = 2 /\ raw_chunks[1] # raw_chunks[2]
    /\ Len(chunks) = 3

\* C3: when the generation stream raises, the request still ends without
\* raising; with no output chunk yielded before the failure the caller
\* receives exactly one chunk, the apology; with at least one output chunk
\* yielded the caller receives exactly those chunks, and neither an apology
\* nor a citation-map chunk after them.
C3_GenerationFailure ==
    (mode = "chat" /\ gen_failed) =>
        /\ pc \in {"log", "done"}
        /\ raised = NoError
        /\ Prose(raw_chunks) = <<>> => chunks = <<GenerationApology>>
        /\ Prose(raw_chunks) # <<>> => chunks = Prose(raw_chunks)

C3_Witness ==
    /\ Ended /\ gen_failed
    /\ Len(chunks) = 1 /\ chunks[1] = NormalizedChunk(<<"[", "1", ",", " ", "2", "]">>)

\* C4: when the retriever raises, the request ends with the retrieval error
\* (status 500, "Fehler beim Abrufen relevanter Dokumente.") handed to the
\* caller, no chunk at all is produced, and the reranker, the answerability
\* check and the generation are not invoked.
C4_RetrievalErrorSurfaced ==
    (mode = "chat" /\ retrieve_failed) =>
        /\ pc = "done"
        /\ raised = RetrievalError
        /\ chunks = <<>> /\ gen_yielded = <<>>
        /\ calls.reranker = 0 /\ calls.verify = 0 /\ calls.generate = 0

C4_Witness ==
    /\ Ended /\ retrieve_failed
    /\ calls.retriever = 1
    /\ raised.status = 500

\* C5: once the endpoint has returned the StreamingResponse the generator
\* never ends by raising; only the empty-query error raises, and it does so
\* before the stream is started.
C5_NoRaiseInStartedStream ==
    (mode = "chat" /\ raised # NoError) =>
        /\ raised = EmptyQueryError
        /\ ~stream_started

-----------------------------------------------------------------------------
(* Properties of _rerank_documents and of the reranking stage *)

\* a direct call of _rerank_documents has returned
RerankReturned == mode = "rerank" /\ pc = "returned"

\* rank of passage i under scores: one more than the number of passages
\* that score higher, or score the same and were retrieved earlier
RankOf(scores, i) ==
    1 + Cardinality({j \in 1..Len(scores) :
                        scores[j] > scores[i] \/ (scores[j] = scores[i] /\ j < i)})

\* the passages the reranking rule keeps: ranks 1..min_docs whatever their
\* score, ranks min_docs+1..top_n when their score exceeds the threshold
Kept(scores, top_n, min_docs, relevance_threshold) ==
    {i \in 1..Len(scores) :
        \/ RankOf(scores, i) <= min_docs
        \/ /\ RankOf(scores, i) <= top_n
           /\ scores[i] > relevance_threshold}

\* C6: for a non-empty passage list and any scores, when the reranker
\* succeeds, _rerank_documents returns exactly the min_docs highest-ranked
\* passages whatever their score plus the passages of ranks
\* min_docs+1..top_n whose score is strictly greater than the threshold,
\* each once and in rank order; no passage ranked below top_n is returned.
C6_RerankSelection ==
    (RerankReturned /\ fn_args.prediction.ok /\ fn_args.docs # <<>>) =>
        LET scores == fn_args.prediction.scores
            result == fn_result[1]
            kept == Kept(scores, fn_args.top_n, fn_args.min_docs, RelevanceThreshold)
        IN /\ \A k \in 1..Len(result) :
                 /\ result[k].id \in kept
                 /\ result[k] = fn_args.docs[result[k].id]
                 /\ RankOf(scores, result[k].id) <= fn_args.top_n
           /\ \A i \in kept : \E k \in 1..Len(result) : result[k].id = i
           /\ \A k, l \in 1..Len(result) :
                 k < l => RankOf(scores, result[k].id) < RankOf(scores, result[l].id)

\* the worked example: twelve passages under min_docs=5, top_n=10 and
\* threshold 0.1, the seven retrieved last scoring 0.2 and the others at
\* most 0.1: ranks 1..5 are kept, ranks 6..7 pass the threshold, ranks
\* 8..10 do not, ranks 11..12 are cut
C6_Witness ==
    /\ RerankReturned /\ fn_args.prediction.ok
    /\ Len(fn_args.docs) = 12
    /\ fn_args.top_n = 10 /\ fn_args.min_docs = 5
    /\ fn_args.prediction.scores[1] = 0 /\ fn_args.prediction.scores[12] = 2
    /\ Len(fn_result[1]) = 7

\* the first n elements of a list, written without slicing
FirstOf(docs, n) == [i \in 1..(IF Len(docs) < n THEN Len(docs) ELSE n) |-> docs[i]]

\* C7: when the reranker fails, _rerank_documents returns the first top_n
\* passages of its input in retrieval order and does not raise; in a chat
\* request the failure ends nothing and is not shown to the caller: context
\* and citation map are built from those passages, and generation follows
\* whenever the answerability check lets the request pass.
C7_RerankFallback ==
    /\ (RerankReturned /\ ~fn_args.prediction.ok) =>
          fn_result[1] = FirstOf(fn_args.docs, fn_args.top_n)
    /\ (mode = "chat" /\ rerank_failed) =>
          /\ reranked_docs = FirstOf(initial_docs, TopN)
          /\ reranked_docs # <<>>
          /\ raised = NoError
          /\ pc \in {"context", "verify", "generate", "streaming", "log", "done"}
          /\ \A i \in 1..Len(chunks) :
                chunks[i] \notin {NotRelevantMessage, UnexpectedErrorMessage}
          /\ pc # "context" =>
                /\ context = _prepare_context(FirstOf(initial_docs, TopN)).context
                /\ Len(citation_map) = Len(reranked_docs)
          /\ (pc \in {"streaming", "log", "done"} /\ is_answerable) =>
                calls.generate = 1

C7_Witness ==
    /\ Ended /\ rerank_failed
    /\ Len(initial_docs) = 2
    /\ GenerationCompleted

\* C8: when the verification call fails, the check counts as answerable and
\* the request goes on to generation: no refusal chunk and no error reach
\* the caller.
C8_AnswerabilityDefaultsTrue ==
    (mode = "chat" /\ verify_failed) =>
        /\ is_answerable
        /\ raised = NoError
        /\ pc \in {"generate", "streaming", "log", "done"}
        /\ pc # "generate" => calls.generate = 1
        /\ \A i \in 1..Len(chunks) :
              chunks[i] \notin {NotAnswerableMessage, UnexpectedErrorMessage}

C8_Witness ==
    /\ Ended /\ verify_failed
    /\ GenerationCompleted

-----------------------------------------------------------------------------
(* Properties of _prepare_context *)

\* the number a string of decimal digits denotes, read digit by digit
RECURSIVE DecimalValue(_)
DecimalValue(key) ==
    IF key = <<>> THEN 0
    ELSE 10 * DecimalValue(SubSeq(key, 1, Len(key) - 1))
         + (CHOOSE d \in 0..9 : DigitChar(d) = key[Len(key)])

\* key is the decimal numeral of n, without a leading zero
IsNumeralOf(key, n) ==
    /\ key # <<>>
    /\ \A i \in 1..Len(key) : key[i] \in Digits
    /\ key[1] # "0"
    /\ DecimalValue(key) = n

\* C9: for a passage list of length n, _prepare_context returns a citation
\* map with exactly n entries whose keys are "1".."n" in this order, key i
\* mapping to the cleaned text of the i-th passage; the context is the
\* blocks "[i]: <cleaned text>" joined by blank lines; a second call on the
\* same passages returns the same context and map.
C9_CitationKeys ==
    (mode = "context" /\ fn_result # <<>>) =>
        LET docs == fn_args.docs
            n == Len(docs)
            citations == fn_result[1].citation_map
            block(i) == <<"[">> \o citations[i][1] \o <<"]", ":", " ">>
                        \o citations[i][2]
        IN /\ Len(citations) = n
           /\ \A i \in 1..n :
                 /\ IsNumeralOf(citations[i][1], i)
                 /\ citations[i][2] = clean_source_text(docs[i].page_content)
           /\ fn_result[1].context
                 = Join(<<"\n", "\n">>, [i \in 1..n |-> block(i)])
           /\ \A r \in 1..Len(fn_result) : fn_result[r] = fn_result[1]

C9_Witness ==
    /\ mode = "context" /\ pc = "returned"
    /\ Len(fn_result) = 2
    /\ Len(fn_args.docs) = 10
    /\ fn_result[2].citation_map[10][1] = <<"1", "0">>
    /\ fn_args.docs[10].page_content # fn_result[2].citation_map[10][2]

-----------------------------------------------------------------------------
(* Properties of the chat log *)

\* C10: a failed chat-log write never reaches the caller: the write is
\* attempted only when every chunk of the stream has been yielded (after an
\* attempt the request has ended and the caller holds exactly what
\* generate_response yielded), and a failed write leaves no error raised,
\* no extra chunk and no log object.
C10_LogFailureContained ==
    /\ (mode = "chat" /\ calls.log >= 1) =>
          /\ pc = "done"
          /\ calls.log = 1
          /\ chunks = gen_yielded
          /\ raised = NoError
    /\ (mode = "chat" /\ log_failed) =>
          /\ calls.log = 1
          /\ blobs = <<>>
          /\ \A i \in 1..Len(chunks) : chunks[i] # UnexpectedErrorMessage

C10_Witness ==
    /\ Ended /\ log_failed
    /\ GenerationCompleted
    /\ Len(chunks) = 3

-----------------------------------------------------------------------------
(* Properties of the chat log *)

\* request r has written its log object
Logged(r) == mode = "logs" /\ requests[r].pc = "logged"

\* C11: the requests that have written their chat log have written objects
\* of distinct names, and the container still holds, under the name each
\* of them wrote, the record of that request: no log object is overwritten
\* by another request, whatever the interleaving and the clock.
C11_OneLogObjectPerRequest ==
    \A r \in 1..Len(requests) :
       Logged(r) =>
          /\ [name |-> requests[r].filename,
              data |-> LogData(requests[r].query, requests[r].response, <<>>)] \in store
          /\ \A o \in 1..Len(requests) :
                Logged(o) /\ o # r => requests[o].filename # requests[r].filename

\* the stream of the request has ended without raising
Completed == Ended /\ raised = NoError

\* the request came to generate_response
Generated == mode = "chat" /\ calls.generate = 1

\* C12 as stated: every request whose stream ends without raising, be it
\* with an answer, a refusal or an apology, has called the chat-log sink
\* exactly once.
C12_LogOncePerCompleted == Completed => calls.log = 1

\* C12: no request calls the chat-log sink more than once; a request whose
\* stream ends without raising has called it exactly once when it came to
\* generation (the answer was generated, or generation failed) and not at
\* all when it ended before generation (refusal, service unavailable).
C12_LogOncePerGenerated ==
    /\ mode = "chat" => calls.log <= 1
    /\ Completed => calls.log = (IF Generated THEN 1 ELSE 0)

C12_Witness == Completed /\ Generated /\ calls.log = 1 /\ Len(chunks) >= 2

-----------------------------------------------------------------------------
(* Properties of split_multi_citations *)

\* s[i..j] is a bracket holding a comma-separated list of two or more
\* indices: "[", digits, then one or more times a comma, optional white
\* space and digits, "]"
IsMultiBracket(s, i, j) ==
    /\ 1 <= i /\ i + 4 <= j /\ j <= Len(s)
    /\ s[i] = "[" /\ s[j] = "]"
    /\ s[i + 1] \in Digits /\ s[j - 1] \in Digits
    /\ \E k \in (i + 1)..(j - 1) : s[k] = ","
    /\ \A k \in (i + 2)..(j - 1) :
          /\ s[k] \in Digits \cup WSpace \cup {","}
          /\ s[k] = "," => s[k - 1] \in Digits
          /\ s[k] \in WSpace => s[k - 1] \in WSpace \cup {","}

HasMultiBracket(s) == \E i, j \in 1..Len(s) : IsMultiBracket(s, i, j)

\* the characters of s that are no bracket, comma or white space
Words(s) == SelectSeq(s, LAMBDA c : c \notin WSpace \cup {"[", "]", ","})

\* split_multi_citations(text) and split_multi_citations of that have returned
SplitReturned == mode = "split" /\ pc = "returned"

\* C13: what split_multi_citations returns holds no bracket with a
\* comma-separated list of indices; a text without such a bracket (single
\* indices, other text) is returned as it is, and the digits and letters of
\* any text are returned in their order; "See [2, 4] and [7]." becomes
\* "See [2][4] and [7]."; applying it to its own result changes nothing.
C13_SplitMultiCitations ==
    SplitReturned =>
       LET text == fn_args.text
           once == fn_result[1]
           twice == fn_result[2]
       IN /\ ~HasMultiBracket(once)
          /\ ~HasMultiBracket(text) => once = text
          /\ Words(once) = Words(text)
          /\ text = SplitExample =>
                once = <<"S", "e", "e", " ", "[", "2", "]", "[", "4", "]", " ",
                         "a", "n", "d", " ", "[", "7", "]", ".">>
          /\ twice = once

C13_Witness ==
    /\ SplitReturned
    /\ fn_args.text = SplitExample
    /\ fn_result[1] # fn_args.text
    /\ fn_result[2] = fn_result[1]

-----------------------------------------------------------------------------
(* Properties of clean_source_text *)

\* clean_source_text(text) and clean_source_text of that have returned
CleanReturned == mode = "clean" /\ pc = "returned"

\* every newline of s stands in a paragraph break: a run of exactly two
ParagraphBreaksOnly(s) ==
    \A i \in 1..Len(s) :
       s[i] = "\n" =>
          LET b == CHOOSE k \in 1..i :
                      /\ \A m \in k..i : s[m] = "\n"
                      /\ k > 1 => s[k - 1] # "\n"
          IN RunEnd(s, b, {"\n"}) = b + 2

\* the newlines of the claim's example: the single one becomes a space, the
\* two consecutive ones one paragraph break
C14_Example ==
    CleanReturned /\ fn_args.text = CleanExample =>
       fn_result[1] = <<"a", " ", "b", " ", "c", " ", "d", "\n", "\n", "e", " ", "f">>

\* C14: the newlines clean_source_text returns are paragraph breaks of two
\* newlines, the claim's example is cleaned as the claim says, and cleaning
\* what clean_source_text returned returns it unchanged, for every text.
C14_CleanIdempotent ==
    CleanReturned =>
       /\ ParagraphBreaksOnly(fn_result[1])
       /\ C14_Example
       /\ fn_result[2] = fn_result[1]

\* the part of C14 about the result of one cleaning
C14_OneCleaning ==
    CleanReturned => ParagraphBreaksOnly(fn_result[1]) /\ C14_Example

-----------------------------------------------------------------------------
(* Properties of _extract_city *)

\* _extract_city(query) has returned
CityReturned == mode = "city" /\ pc = "returned"

\* one of the markers occurs in the lower-cased s at offset i
MarkerAt(s, i) == \E m \in 1..Len(CityMarkers) : OccursAt(LowerQuery(s), CityMarkers[m], i)

\* the place name of a query without marker
WholeQuery(q) == IF CityTrim(q) = <<>> THEN None ELSE Some(CityTrim(q))

\* C15 as stated: the place name is the text after the first occurrence in
\* the query of any of the markers " in ", " at ", " for ", blanks and
\* punctuation around it removed, and the trimmed query when there is no
\* marker ("What is the weather in Rome?" gives "Rome").
C15_FirstMarkerInQuery ==
    CityReturned =>
       LET q == fn_args.query
           hits == {i \in 0..Len(q) : MarkerAt(q, i)}
       IN /\ \A i \in hits :
                (\A j \in hits : i <= j) => fn_result[1] = Some(CityTrim(Drop(q, i + 3)))
          /\ hits = {} => fn_result[1] = WholeQuery(q)
          /\ q = CityExample => fn_result[1] = Some(<<"Rome">>)

\* C15: the markers are taken in the order " in ", " at ", " for ", and the
\* first of that order that occurs in the lower-cased query decides: the
\* place name is the text after that marker's first occurrence (so " in "
\* wins over an earlier " at " or " for "), and the whole query when no
\* marker occurs.  White space around it and then "?", "!", ".", "," and
\* blanks at both its ends are removed; a query without marker and with
\* nothing left gives no place name.
C15_FirstMarkerInOrder ==
    CityReturned =>
       LET q == fn_args.query
           text == LowerQuery(q)
           r == fn_result[1]
           occurs(m) == \E i \in 0..Len(q) : OccursAt(text, CityMarkers[m], i)
       IN /\ \A m \in 1..Len(CityMarkers) :
                occurs(m) /\ (\A k \in 1..(m - 1) : ~occurs(k)) =>
                   \E i \in 0..Len(q) :
                      /\ OccursAt(text, CityMarkers[m], i)
                      /\ \A j \in 0..(i - 1) : ~OccursAt(text, CityMarkers[m], j)
                      /\ r = Some(CityTrim(Drop(q, i + 3)))
          /\ (\A m \in 1..Len(CityMarkers) : ~occurs(m)) => r = WholeQuery(q)
          /\ r.value # <<>> =>
                r.value[1] \notin CityStripChars /\ r.value[Len(r.value)] \notin CityStripChars
          /\ q = CityExample => r = Some(<<"Rome">>)

\* " at " stands before " in " in the query, and " in " decides
C15_Witness ==
    /\ CityReturned
    /\ \E i, j \in 0..Len(fn_args.query) :
          /\ i < j
          /\ OccursAt(LowerQuery(fn_args.query), CityMarkers[2], i)
          /\ OccursAt(LowerQuery(fn_args.query), CityMarkers[1], j)
          /\ fn_result[1] = Some(CityTrim(Drop(fn_args.query, j + 3)))
    /\ fn_result[1].value # <<>>

-----------------------------------------------------------------------------
(* Properties of the stream and the chat log of a request *)

\* C16: when the chat log record of a request is written, its response
\* field is the concatenation, in order, of all the chunks process_chat
\* yielded for that request: the normalized answer chunks with the
\* citation-map chunk at the end, or what came before the failure, or the
\* apology alone.
C16_LoggedResponseIsStream ==
    mode = "chat" =>
       \A i \in 1..Len(blobs) :
          /\ blobs[i].response = Concat(chunks)
          /\ blobs[i].response =
                Concat(Prose(raw_chunks))
                \o (IF ~gen_failed THEN CitationMapStr(citation_map)
                    ELSE IF Concat(Prose(raw_chunks)) = <<>> THEN GenerationApology
                    ELSE <<>>)

C16_Witness ==
    /\ Ended
    /\ Len(blobs) = 1
    /\ Len(chunks) >= 3
    /\ IsCitationChunk(chunks[Len(chunks)])
    /\ blobs[1].response = Concat(chunks)

\* the request ended in a refusal: retrieval or reranking returned no
\* passage, or the answerability check said no
Refused ==
    /\ Completed
    /\ instance = "ok"
    /\ calls.retriever = 1
    /\ \/ initial_docs = <<>>
       \/ calls.reranker = 1 /\ reranked_docs = <<>>
       \/ ~is_answerable

\* C17: a request that ended in a refusal has a stream of exactly one
\* chunk, the refusal message; generation was never invoked for it and no
\* chunk of its stream is a citation-map chunk.
C17_RefusalIsOneChunk ==
    Refused =>
       /\ Len(chunks) = 1
       /\ chunks[1] \in {NoDocumentsMessage, NotRelevantMessage, NotAnswerableMessage}
       /\ calls.generate = 0
       /\ raw_chunks = <<>> /\ gen_yielded = <<>>
       /\ \A i \in 1..Len(chunks) : ~IsCitationChunk(chunks[i])

\* the answerability check was asked and said no
C17_Witness ==
    /\ Refused
    /\ calls.verify = 1
    /\ ~verify_failed
    /\ chunks = <<NotAnswerableMessage>>

-----------------------------------------------------------------------------
(* Properties of the streamed prose *)

\* every chunk of the answer has gone through the generation loop
Streamed == mode = "stream" /\ pc = "streamed"

\* C18: however the answer is cut into chunks, the prose yielded holds no
\* bracket with a comma-separated list of indices, and the concatenation
\* of the yielded chunks is split_multi_citations of the concatenation of
\* the raw chunks.
C18_ChunkwiseIsWhole ==
    Streamed =>
       /\ ~HasMultiBracket(Concat(gen_yielded))
       /\ Concat(gen_yielded) = split_multi_citations(Concat(raw_chunks))

====
